---- MODULE Spec2Model ----
(***************************************************************************)
(* Model of the authentication and authorization core of the backend:      *)
(* the users table (db/schemas.py), signup / login (routers/auth.py,       *)
(* services/user_service.py), the token codec (mk_jwt_token, jwt.decode),  *)
(* the session resolver and role gate (dependencies/auth.py), the          *)
(* model-management routes (routers/models.py), the prediction routes      *)
(* (routers/prediction.py, services/prediction_service.py), and the model  *)
(* listing, training and deletion of services/model_service.py with its    *)
(* cache, its background tasks and the external model service.             *)
(*                                                                         *)
(* Time is counted in hours: the clock and the NumericDate claims of a     *)
(* token are whole numbers; a datetime has a fractional part besides,      *)
(* which jwt.encode drops.  A JWT is a record: its payload, the algorithm  *)
(* of its header and its signature; an HS256 signature is the pair         *)
(* (signed payload, key), so it verifies exactly for that payload and      *)
(* that key.                                                               *)
(***************************************************************************)
EXTENDS Integers, Sequences, FiniteSets, TLC

VARIABLES
    jwt_key,    \* request.state.jwt_key: JWT_SECRET_KEY of the environment
    users,      \* rows of table "users"
    nextId,     \* next value of the autoincrement sequence of users.id
    now,        \* the clock, in hours
    held,       \* the credential the client holds (NoToken: none)
    pc,         \* per request slot: position inside create_user
    req,        \* per request slot: the signup request being handled
    resp,       \* the response being sent (NoResp: none in flight)
    signedUp,   \* the signups answered 200: id, email and password of each
    models,     \* rows of table "model" (uuids)
    tasks,      \* background training tasks scheduled
    predictions, \* rows of table "prediction"
    codec,      \* the last mk_jwt_token / jwt.decode round trip: inputs and result
    service_models, \* the models the external model service holds
    model_cache,    \* model_service._model_cache
    listing,    \* per call slot: the get_all_models call in progress
    ret,        \* what the last call of a model_service function ended with
    deleted,    \* the ids delete_model has returned its success response for
    inflight    \* the request whose dependencies are being solved

\* the state of services/model_service.py besides the tables
svc == <<service_models, model_cache, listing, ret, deleted>>

vars == <<jwt_key, users, nextId, now, held, pc, req, resp, signedUp, models, tasks,
          predictions, codec, service_models, model_cache, listing, ret, deleted,
          inflight>>

----------------------------------------------------------------------------
(* Bounds of the model *)

MaxTime == 2
MaxId == 4
NumProcs == 2
MaxModels == 1
MaxPredictions == 2

(* Program constants *)

\* routers/auth.py:13
SECRET_KEY == "09d25e094faa6ca2556c818166b7a9563b93f7099f6f0f4caa6cf63b88e8d3e7"
\* user_service.py:63 and routers/auth.py:71: timedelta(hours=1)
DefaultMaxAge == 1

Procs == 1..NumProcs
\* values JWT_SECRET_KEY can be configured to: the key of tests/client.py, or
\* the same string as the constant of routers/auth.py
Keys == {"ultrasecuresecretkey", SECRET_KEY}
\* JWT_SECRET_KEY absent from the environment (environ.get gives None)
NoKey == ""
Emails == {"admin@test", "user@test", "new@test"}
Passwords == {"apass", "upass"}
\* the passwords signup requests are made with
SignupPasswords == {"apass"}
Salts == {"s1"}
Roles == {"user", "admin"}
ModelIds == 1..MaxModels

----------------------------------------------------------------------------
(* Password hasher: argon2 PasswordHasher *)

\* ph.hash(password): a salted digest
Hash(password, salt) == [digest |-> <<"argon2", salt, password>>]

\* ph.verify(hash, password): TRUE, or VerifyMismatchError (FALSE)
Verify(hashed, password) == hashed.digest[3] = password

----------------------------------------------------------------------------
(* Users table *)

NoUser == [id |-> 0, email |-> "", hashed_password |-> Hash("", ""), role |-> ""]

\* a User object that is in no row of the table (its row is gone, or it was
\* never committed)
DetachedUser == [id |-> MaxId + 1, email |-> "gone@test",
                 hashed_password |-> Hash("gpass", "s1"), role |-> "user"]

\* select(User).where(User.email == email) ... scalar_one_or_none()
UsersByEmail(email) == {u \in users : u.email = email}
FindByEmail(email) ==
    IF UsersByEmail(email) = {} THEN NoUser ELSE CHOOSE u \in UsersByEmail(email) : TRUE

\* select(User).where(User.id == id) ... scalar_one_or_none()
FindById(id) ==
    IF \E u \in users : u.id = id THEN CHOOSE u \in users : u.id = id ELSE NoUser

\* mutant: the email column without its unique constraint
UniqueEmailViolated_dropped(email) == FALSE

\* email: column(unique=True): the INSERT of a second row with the email fails
UniqueEmailViolated(email) == UsersByEmail(email) # {}

----------------------------------------------------------------------------
(* Token codec *)

\* str(user.id) and int(payload["sub"]): a string is numeric or not
Str(n) == [numeric |-> TRUE, digits |-> n]
NotANumber == [numeric |-> FALSE, digits |-> 0]
IsInt(s) == s.numeric
Int_(s) == s.digits

\* datetime and timedelta: whole units and a fractional part in halves
DateTime(whole, frac) == [whole |-> whole, frac |-> frac]
Fractions == {0, 1}
\* issued_at + max_age
Plus(a, b) == [whole |-> a.whole + b.whole + ((a.frac + b.frac) \div 2),
               frac |-> (a.frac + b.frac) % 2]
\* jwt.encode turns a datetime claim into a NumericDate with
\* timegm(dt.utctimetuple()): the fractional part is dropped
timegm(dt) == dt.whole
\* datetime.fromtimestamp(n, tz=timezone.utc)
fromtimestamp(n) == DateTime(n, 0)
\* timedelta(hours=n)
timedelta(n) == DateTime(n, 0)

EmptyPayload == [sub |-> NotANumber, role |-> "", iat |-> 0, exp |-> 0, claims |-> {}]

\* HMAC-SHA256 of the signing input under key
HMAC(payload, key) == [p |-> payload, k |-> key]
NoSig == [p |-> EmptyPayload, k |-> ""]

\* jwt.encode(payload, key, algorithm="HS256")
jwt_encode(payload, key) ==
    [payload |-> payload, alg |-> "HS256", sig |-> HMAC(payload, key)]

NoToken == [payload |-> EmptyPayload, alg |-> "", sig |-> NoSig]
Garbage == [payload |-> EmptyPayload, alg |-> "malformed", sig |-> NoSig]

\* mutant: the expiry computed from the default max_age
mk_jwt_token_default_age(user, max_age, issued_at, key) ==
    jwt_encode([sub |-> Str(user.id), role |-> user.role, iat |-> timegm(issued_at),
                exp |-> timegm(Plus(issued_at, timedelta(DefaultMaxAge))),
                claims |-> {"sub", "role", "iat", "exp"}], key)

\* mk_jwt_token(user=, max_age=, issued_at=, jwt_key=): issued_at a datetime,
\* max_age a timedelta
mk_jwt_token(user, max_age, issued_at, key) ==
    jwt_encode([sub |-> Str(user.id), role |-> user.role, iat |-> timegm(issued_at),
                exp |-> timegm(Plus(issued_at, max_age)),
                claims |-> {"sub", "role", "iat", "exp"}], key)

\* the token login builds: {"sub": str(user.id), "exp": now + 1h}, SECRET_KEY
LoginToken(user, t) ==
    jwt_encode([sub |-> Str(user.id), role |-> "", iat |-> 0,
                exp |-> t + DefaultMaxAge, claims |-> {"sub", "exp"}], SECRET_KEY)

\* mutant: decoding without verifying the signature
jwt_decode_ok_unverified(token, key, t) ==
    /\ token.alg = "HS256"
    /\ ("exp" \in token.payload.claims => token.payload.exp > t)

\* jwt.decode(token, key, algorithms=["HS256"]): the payload, or PyJWTError.
\* PyJWT rejects a header algorithm outside the list, a signature that does
\* not verify, and an "exp" claim with exp <= now (ExpiredSignatureError).
jwt_decode_ok(token, key, t) ==
    /\ token.alg = "HS256"
    /\ token.sig = HMAC(token.payload, key)
    /\ ("exp" \in token.payload.claims => token.payload.exp > t)

\* the payload jwt.decode returns (EmptyPayload: it raised)
jwt_decode(token, key, t) ==
    IF jwt_decode_ok(token, key, t) THEN token.payload ELSE EmptyPayload

----------------------------------------------------------------------------
(* Session resolver and role gate: dependencies/auth.py *)

\* what a dependency or handler ends with: a returned value (kind "anon":
\* None, kind "user": a User), an HTTPException (kind "http"), or any other
\* exception (kind "crash"), which main.py answers with status 500
\* with them, the entries the code wrote to the log (field log)
Returned(user) ==
    [kind |-> IF user = NoUser THEN "anon" ELSE "user", status |-> 200,
     detail |-> "", user |-> user, log |-> {}]
HTTPException(status, detail) ==
    [kind |-> "http", status |-> status, detail |-> detail, user |-> NoUser, log |-> {}]
Unhandled ==
    [kind |-> "crash", status |-> 500, detail |-> "An unexpected error occurred.",
     user |-> NoUser, log |-> {}]

\* logger.warning(message + "\nToken: %s", *args, tkn): the entry holds the
\* message and the object tkn, printed in full
LogEntry(message, tkn) == [level |-> "warning", message |-> message, tkn |-> tkn]

\* token_error(tkn, message): logs, then raises 401 "Invalid token"
token_error(tkn, message) ==
    [HTTPException(401, "Invalid token") EXCEPT !.log = {LogEntry(message, tkn)}]

\* validate_not_expired(payload): "ok", "expired" (token_error) or "KeyError"
validate_not_expired(payload, t) ==
    IF "exp" \notin payload.claims THEN "KeyError"
    ELSE IF payload.exp < t THEN "expired"
    ELSE "ok"

\* what session.execute does in a request: it answers, or it raises because
\* the database is unreachable or the statement timed out
Storage == {"up", "unavailable", "timeout"}

\* mutant: a failed lookup taken for "no such user" and no identity
get_current_user_lenient(token, t, storage) ==
    IF token = NoToken THEN Returned(NoUser)
    ELSE IF ~jwt_decode_ok(token, jwt_key, t)
         THEN token_error(token, "JWT decoding failed")
    ELSE LET payload == token.payload
             fresh == validate_not_expired(payload, t)
         IN  IF fresh = "KeyError" THEN Unhandled
             ELSE IF fresh = "expired" THEN token_error(payload, "token has expired.")
             ELSE IF "sub" \notin payload.claims THEN Unhandled
             ELSE IF ~IsInt(payload.sub) THEN Unhandled
             ELSE IF storage # "up" THEN Returned(NoUser)
             ELSE IF FindById(Int_(payload.sub)) = NoUser
                  THEN token_error(payload, "User with ID %d not found in DB.")
             ELSE Returned(FindById(Int_(payload.sub)))

\* get_current_user(token, request) at time t; an exception of
\* session.execute is not caught and leaves the dependency
get_current_user(token, t, storage) ==
    IF token = NoToken THEN Returned(NoUser)
    ELSE IF ~jwt_decode_ok(token, jwt_key, t)
         THEN token_error(token, "JWT decoding failed")
    ELSE LET payload == token.payload
             fresh == validate_not_expired(payload, t)
         IN  IF fresh = "KeyError" THEN Unhandled
             ELSE IF fresh = "expired" THEN token_error(payload, "token has expired.")
             ELSE IF "sub" \notin payload.claims THEN Unhandled
             ELSE IF ~IsInt(payload.sub) THEN Unhandled
             ELSE IF storage # "up" THEN Unhandled
             ELSE IF FindById(Int_(payload.sub)) = NoUser
                  THEN token_error(payload, "User with ID %d not found in DB.")
             ELSE Returned(FindById(Int_(payload.sub)))

\* mutant: a request without identity taken for a plain user
get_user_role_never_anon(current_user) ==
    IF current_user = NoUser THEN "user" ELSE current_user.role

\* get_user_role(current_user)
get_user_role(current_user) ==
    IF current_user = NoUser THEN "anon" ELSE current_user.role

\* mutant: a gate that answers every refusal with 403
role_checker_403(allowed_roles, current_user, role) ==
    IF role \in allowed_roles THEN [kind |-> "role", status |-> 200, detail |-> "", role |-> role]
    ELSE [kind |-> "http", status |-> 403,
          detail |-> "User does not have any of the required roles", role |-> role]

\* has_role(allowed_roles) -> role_checker(current_user, role)
role_checker(allowed_roles, current_user, role) ==
    IF role \in allowed_roles THEN [kind |-> "role", status |-> 200, detail |-> "", role |-> role]
    ELSE IF current_user = NoUser
         THEN [kind |-> "http", status |-> 401, detail |-> "Unauthorized", role |-> role]
         ELSE [kind |-> "http", status |-> 403,
               detail |-> "User does not have any of the required roles", role |-> role]

\* AdminRole = Depends(has_role(["admin"]))
AdminRoles == {"admin"}

----------------------------------------------------------------------------
(* Requests and responses *)

\* what a request presents as its access_token cookie: nothing, the token
\* the client holds, that token with its payload altered or re-headed with
\* algorithm "none", or a string that is no JWT
Tamper(tok) ==
    {[tok EXCEPT !.payload.role = "admin"],
     [tok EXCEPT !.payload.sub = Str(1)],
     [tok EXCEPT !.payload.exp = MaxTime + DefaultMaxAge + 1]} \ {tok}
AlgNone(tok) == [tok EXCEPT !.alg = "none", !.sig = NoSig]
Held == {held, NoToken}
Presentable ==
    Held \cup {Garbage}
         \cup (IF held = NoToken THEN {} ELSE Tamper(held) \cup {AlgNone(held)})

\* description of a presented token at time t, recorded with the response
TokenTags(tok, t) ==
    LET pl  == tok.payload
        sub == IF "sub" \in pl.claims /\ IsInt(pl.sub) THEN FindById(Int_(pl.sub)) ELSE NoUser
    IN  {x \in {"no_token"}   : tok = NoToken}
   \cup {x \in {"malformed"}  : tok # NoToken /\ tok.alg # "HS256"}
   \cup {x \in {"other_key"}  : tok.alg = "HS256" /\ tok.sig.k # jwt_key}
   \cup {x \in {"tampered"}   : tok.alg = "HS256" /\ tok.sig.p # pl}
   \cup {x \in {"expired"}    : "exp" \in pl.claims /\ t >= pl.exp}
   \cup {x \in {"expires_now"} : "exp" \in pl.claims /\ t = pl.exp}
   \cup {x \in {"no_subject"} : "sub" \in pl.claims /\ IsInt(pl.sub) /\ sub = NoUser}
   \cup {x \in {"stale_role"} : "role" \in pl.claims /\ sub # NoUser /\ sub.role # pl.role}
   \cup {x \in {"from_login"} : tok = held /\ tok # NoToken /\ pl.claims = {"sub", "exp"}}
   \cup {x \in {"signup_user"} : sub # NoUser /\ \E c \in signedUp : c.id = sub.id}
   \cup {x \in {"lacks_exp"} : tok.alg = "HS256" /\ "exp" \notin pl.claims}
   \cup {x \in {"lacks_sub"} : tok.alg = "HS256" /\ "sub" \notin pl.claims}
   \cup {x \in {"sub_not_int"} : tok.alg = "HS256" /\ "sub" \in pl.claims /\ ~IsInt(pl.sub)}

\* the state of the storage during a request, recorded with the response
StorageTags(storage) == {x \in {"storage_down"} : storage # "up"}

Response(op, status, detail, role, uid, tags) ==
    [op |-> op, status |-> status, detail |-> detail, role |-> role,
     uid |-> uid, tags |-> tags, email |-> "", log |-> {}, history |-> {}]
NoResp == Response("", 0, "", "", 0, {})
NoReq == [email |-> "", password |-> "", role |-> ""]

----------------------------------------------------------------------------
(* Models: table "model", the external model service and the cache of
   services/model_service.py *)

\* model_service.py:28
CACHE_EXPIRY_SECONDS == 300
\* the clock counts hours, time.time() counts seconds
SecondsPerHour == 3600
\* tenacity: stop_after_attempt(5) around _fetch_models_from_model_service
FetchAttempts == 5
\* get_all_models calls that can be in progress at once
MaxListing == 1
Listers == 1..MaxListing

\* str(uuid.uuid4()) of the k-th training
Uuid4(k) == <<"uuid4", k>>
\* training_result["id"]: the id the model service gives the model it trained
\* in the k-th training
ServiceId(k) == <<"svc", k>>
\* the model the model service ships with; it reports it as not removable
DefaultModel == <<"svc", 0>>
\* str(uuid.uuid4()) of a test: the id of no model
FakeId == <<"uuid4", 0>>

\* a row of table "model": the status column is the one model_service.py
\* reads and writes
ModelRow(k, uuid, status) == [id |-> k, uuid |-> uuid, status |-> status]

\* a model of the model service: GET /models/{id} reports "removable"
ServiceModel(id, removable) == [id |-> id, removable |-> removable]

\* ModelResponse(id=, status=): status defaults to "unknown"
ModelResponse(id, status) == [id |-> id, status |-> status]

\* _model_cache = {"data": None, "timestamp": 0}; None and the empty list
\* are both false in `if _model_cache["data"]` and are one value here
NoCache == [data |-> {}, timestamp |-> 0]

NoListing == [pos |-> "idle", current_time |-> 0, db_models |-> {}, gone |-> {}]

\* what a function of model_service.py ends with: it returns (kind
\* "returned"), or raises ValueError or HTTPException; with it, the requests
\* it sent to the model service (field requests), the list it returned
\* (field result), and the rows of table "model" (field db) and the ids
\* deleted (field gone) when it was called
Ret(op, kind, status, detail, requests, tags) ==
    [op |-> op, kind |-> kind, status |-> status, detail |-> detail,
     requests |-> requests, tags |-> tags, result |-> {}, db |-> {}, gone |-> {},
     attempts |-> 0]
NoRet == Ret("", "", 0, "", {}, {})

\* the request between the resolution of its dependencies and its handler
NoInflight == [pos |-> "idle", token |-> NoToken, cached |-> Returned(NoUser),
               role |-> "", current_user |-> NoUser, calls |-> 0]

----------------------------------------------------------------------------
(* Startup: main.py lifespan *)

NoCodec == [user |-> NoUser, max_age |-> timedelta(0), issued_at |-> DateTime(0, 0),
            key |-> NoKey, ok |-> FALSE, decoded |-> EmptyPayload]

\* lifespan raises RuntimeError when JWT_SECRET_KEY is missing, before the
\* users are seeded: the application does not start
Started == jwt_key # NoKey

Init ==
    /\ jwt_key \in Keys \cup {NoKey}
    /\ IF Started
       THEN /\ \E s1 \in Salts, s2 \in Salts :
                 users = {[id |-> 1, email |-> "admin@test",
                           hashed_password |-> Hash("apass", s1), role |-> "admin"],
                          [id |-> 2, email |-> "user@test",
                           hashed_password |-> Hash("upass", s2), role |-> "user"]}
            /\ nextId = 3
       ELSE /\ users = {}
            /\ nextId = 1
    /\ now = 0
    /\ held = NoToken
    /\ pc = [p \in Procs |-> "idle"]
    /\ req = [p \in Procs |-> NoReq]
    /\ resp = NoResp
    /\ signedUp = {}
    /\ models = {}
    /\ tasks = {}
    /\ predictions = {}
    /\ codec = NoCodec
    /\ service_models = {ServiceModel(DefaultModel, FALSE)}
    /\ model_cache = NoCache
    /\ listing = [l \in Listers |-> NoListing]
    /\ ret = NoRet
    /\ deleted = {}
    /\ inflight = NoInflight

\* the service takes up a step only when it has started and no response is
\* waiting to be sent
Ready == Started /\ resp = NoResp

\* the response leaves the service (main.py: the middlewares return it)
SendResponse ==
    /\ resp # NoResp
    /\ resp' = NoResp
    /\ UNCHANGED <<inflight, svc, codec, predictions, jwt_key, users, nextId, now, held, pc, req, signedUp, models, tasks>>

Tick ==
    /\ Ready
    /\ now < MaxTime
    /\ now' = now + 1
    /\ UNCHANGED <<inflight, svc, codec, predictions, jwt_key, users, nextId, held, pc, req, resp, signedUp, models, tasks>>

----------------------------------------------------------------------------
(* POST /auth/signup: routers/auth.py signup, user_service.create_user *)

\* the "role" field a signup body may carry next to email and password
\* ("": none); SignupRequest declares email and password only
BodyRoles == {"", "user", "admin"}

\* mutant: a request model with a role field that signup passes on
SignupRole_from_body(body_role) == IF body_role = "" THEN "user" ELSE body_role

\* the role create_user is entered with by signup:
\* create_user(session, data.email, data.password), so role keeps its
\* default "user" whatever the body carries
SignupRole(body_role) == "user"

\* create_user up to its first await: the select by email and the 409
SignupBegin(p, email, password, body_role) ==
    /\ Ready
    /\ pc[p] = "idle"
    /\ nextId + Cardinality({q \in Procs : pc[q] = "commit"}) <= MaxId
    /\ IF FindByEmail(email) # NoUser
       THEN /\ resp' = Response("signup", 409, "Duplicate email.", "", 0, {})
            /\ UNCHANGED <<pc, req>>
       ELSE /\ pc' = [pc EXCEPT ![p] = "commit"]
            /\ req' = [req EXCEPT ![p] = [email |-> email, password |-> password,
                                          role |-> SignupRole(body_role)]]
            /\ UNCHANGED resp
    /\ UNCHANGED <<inflight, svc, codec, predictions, jwt_key, users, nextId, now, held, signedUp, models, tasks>>

\* create_user from ph.hash to the return, and the handler's response: the
\* INSERT is flushed by db.commit(); a unique violation raises IntegrityError,
\* which signup answers with 500
SignupCommit(p, salt) ==
    /\ Ready
    /\ pc[p] = "commit"
    /\ LET new_user == [id |-> nextId, email |-> req[p].email,
                        hashed_password |-> Hash(req[p].password, salt),
                        role |-> req[p].role]
       IN  IF UniqueEmailViolated(req[p].email)
           THEN /\ resp' = Response("signup", 500, "Internal server error during signup.",
                                    "", 0, {"integrity_error"})
                /\ UNCHANGED <<users, signedUp>>
           ELSE /\ users' = users \cup {new_user}
                /\ signedUp' = signedUp \cup {[id |-> new_user.id, email |-> new_user.email,
                                               password |-> req[p].password]}
                /\ resp' = Response("signup", 200, "", "", new_user.id, {})
    /\ nextId' = nextId + 1
    /\ pc' = [pc EXCEPT ![p] = "idle"]
    /\ req' = [req EXCEPT ![p] = NoReq]
    /\ UNCHANGED <<inflight, svc, codec, predictions, jwt_key, now, held, models, tasks>>

----------------------------------------------------------------------------
(* POST /auth/login: routers/auth.py login, user_service.authenticate_user *)

\* mutant: a missing user reported as such
authenticate_user_enumerating(email, password) ==
    LET user == FindByEmail(email)
    IN  IF user = NoUser THEN HTTPException(404, "User not found.")
        ELSE IF ~Verify(user.hashed_password, password)
             THEN HTTPException(401, "Invalid credentials.")
             ELSE Returned(user)

\* mutant: the password check skipped
authenticate_user_unchecked(email, password) ==
    LET user == FindByEmail(email)
    IN  IF user = NoUser THEN HTTPException(401, "Invalid credentials.")
        ELSE Returned(user)

\* authenticate_user(db, email, password): the user, or HTTPException 401
authenticate_user(email, password) ==
    LET user == FindByEmail(email)
    IN  IF user = NoUser THEN HTTPException(401, "Invalid credentials.")
        ELSE IF ~Verify(user.hashed_password, password)
             THEN HTTPException(401, "Invalid credentials.")
             ELSE Returned(user)

\* the response of login: status, detail and the access_token of the body
LoginResponse(email, password, t) ==
    LET auth == authenticate_user(email, password)
    IN  IF auth.kind = "user"
        THEN [status |-> 200, detail |-> "Login successful.",
              access_token |-> LoginToken(auth.user, t)]
        ELSE [status |-> auth.status, detail |-> auth.detail, access_token |-> NoToken]

Login(email, password) ==
    LET r == LoginResponse(email, password, now)
    IN  /\ Ready
        /\ resp' = Response("login", r.status, r.detail, "",
                     IF r.status = 200 THEN FindByEmail(email).id ELSE 0,
                     {x \in {"no_user"} : FindByEmail(email) = NoUser}
                \cup {x \in {"bad_password"} : FindByEmail(email) # NoUser
                          /\ ~Verify(FindByEmail(email).hashed_password, password)}
                \cup {x \in {"issued"} : r.access_token # NoToken})
        /\ held' = IF r.access_token # NoToken THEN r.access_token ELSE held
        /\ UNCHANGED <<inflight, svc, codec, predictions, jwt_key, users, nextId, now, pc, req, signedUp, models, tasks>>

\* mk_jwt_token called for a User object, with the default max_age and
\* issued_at (tests/conf/auth.py mk_client, mk_user)
IssueToken(user, key) ==
    /\ Ready
    /\ \E frac \in Fractions :
         held' = mk_jwt_token(user, timedelta(DefaultMaxAge), DateTime(now, frac), key)
    /\ UNCHANGED <<inflight, svc, codec, predictions, jwt_key, users, nextId, now, pc, req, resp, signedUp, models, tasks>>

----------------------------------------------------------------------------
(* Requests through the dependencies of dependencies/auth.py *)

\* a request to a route that depends on AnyRole (get_user_role over
\* get_current_user), up to the point where the handler is entered
ResolveRole(tok, storage) ==
    LET who == get_current_user(tok, now, storage)
        tags == TokenTags(tok, now) \cup StorageTags(storage)
    IN  /\ Ready
        /\ resp' = IF who.kind \in {"anon", "user"}
                   THEN Response("role", 200, "", get_user_role(who.user), who.user.id, tags)
                   ELSE [Response("role", who.status, who.detail, "", 0, tags)
                           EXCEPT !.log = who.log]
        /\ UNCHANGED <<inflight, svc, codec, predictions, jwt_key, users, nextId, now, held, pc, req, signedUp, models, tasks>>

\* the allowed_roles of a gate, recorded with its response
AllowTag == [anon |-> "allows_anon", user |-> "allows_user", admin |-> "allows_admin"]

\* a request to a route that depends on has_role(allowed_roles)
CheckRole(tok, allowed_roles, storage) ==
    LET who == get_current_user(tok, now, storage)
        gate == role_checker(allowed_roles, who.user, get_user_role(who.user))
        tags == TokenTags(tok, now) \cup StorageTags(storage)
    IN  /\ Ready
        /\ resp' = IF who.kind \in {"anon", "user"}
                   THEN Response("gate", gate.status, gate.detail,
                                 IF gate.kind = "role" THEN gate.role ELSE "",
                                 who.user.id,
                                 tags \cup {AllowTag[r] : r \in allowed_roles})
                   ELSE [Response("gate", who.status, who.detail, "", 0,
                                  tags \cup {"resolver_error"}) EXCEPT !.log = who.log]
        /\ UNCHANGED <<inflight, svc, codec, predictions, jwt_key, users, nextId, now, held, pc, req, signedUp, models, tasks>>

\* GET /auth/me_myself_and_I (whoami): the route tests/test_auth.py calls; it
\* answers {email, role} of the resolved identity, email null ("") and role
\* "anon" when there is none
Whoami(tok, storage) ==
    LET who == get_current_user(tok, now, storage)
        tags == TokenTags(tok, now) \cup StorageTags(storage)
    IN  /\ Ready
        /\ resp' = IF who.kind \in {"anon", "user"}
                   THEN [Response("whoami", 200, "", get_user_role(who.user), who.user.id,
                                  tags) EXCEPT !.email = who.user.email]
                   ELSE [Response("whoami", who.status, who.detail, "", 0, tags)
                           EXCEPT !.log = who.log]
        /\ UNCHANGED <<inflight, svc, codec, predictions, jwt_key, users, nextId, now, held, pc, req, signedUp, models, tasks>>

----------------------------------------------------------------------------
(* POST /predict/ and GET /predict/history: routers/prediction.py,
   services/prediction_service.py *)

\* services/prediction_service.py: predict_survival(data, db_session, model_id)
PredictSurvivalParams == 3
\* routers/prediction.py: predict_survival(data, db_session, data.model_ids,
\* current_user)
PredictSurvivalArgs == 4
\* routers/prediction.py: .limit(10)
HistoryLimit == 10

\* data.model_ids of a request: absent (None), an empty list, or some ids
ModelIdsInputs == {"none", "empty", "some"}
\* the call to the model service: it answers, or it fails (ValueError)
Inference == {"ok", "error"}

\* user_id of a row of table "prediction" that belongs to no user (NULL)
NoUserId == 0

\* the request and its environment, recorded with the response
PredictTags(who, model_ids, inference) ==
    {x \in {"valid"} : model_ids # "empty" /\ inference = "ok"}
   \cup {x \in {"by_user"} : who.kind = "user"}
   \cup {x \in {"by_anon"} : who.kind = "anon"}

\* predict_passenger_survival(data, request, role, current_user): the
\* dependencies, the check of model_ids, then predict_survival called with
\* one argument more than it takes (TypeError, answered 500); called with
\* matching arguments it stores Prediction(input_data, result), without user_id
Predict(tok, storage, model_ids, inference) ==
    LET who  == get_current_user(tok, now, storage)
        tags == PredictTags(who, model_ids, inference)
    IN  /\ Ready
        /\ IF who.kind \notin {"anon", "user"}
           THEN /\ resp' = [Response("predict", who.status, who.detail, "", 0, tags)
                              EXCEPT !.log = who.log]
                /\ UNCHANGED predictions
           ELSE IF model_ids = "empty"
           THEN /\ resp' = Response("predict", 400,
                             "If 'model_ids' is provided, it cannot be an empty list.",
                             get_user_role(who.user), who.user.id, tags)
                /\ UNCHANGED predictions
           ELSE IF PredictSurvivalArgs # PredictSurvivalParams
           THEN /\ resp' = Response("predict", 500, "Internal Server Error",
                                    get_user_role(who.user), who.user.id, tags)
                /\ UNCHANGED predictions
           ELSE IF inference = "error"
           THEN /\ resp' = Response("predict", 400, "Prediction failed",
                                    get_user_role(who.user), who.user.id, tags)
                /\ UNCHANGED predictions
           ELSE /\ Cardinality(predictions) < MaxPredictions
                /\ predictions' = predictions \cup
                       {[id |-> Cardinality(predictions) + 1, user_id |-> NoUserId,
                         created_at |-> now]}
                /\ resp' = Response("predict", 200, "", get_user_role(who.user),
                                    who.user.id, tags \cup {"stored"})
        /\ UNCHANGED <<inflight, svc, codec, jwt_key, users, nextId, now, held, pc, req, signedUp,
                       models, tasks>>

\* select(Prediction).where(user_id == id).order_by(desc(created_at)).limit(n)
PredictionsOf(id) == {p \in predictions : p.user_id = id}
MostRecent(rows, n) ==
    IF Cardinality(rows) <= n THEN rows
    ELSE CHOOSE some \in SUBSET rows :
           /\ Cardinality(some) = n
           /\ \A a \in some, b \in rows \ some : a.created_at >= b.created_at

\* get_prediction_history(request, current_user)
History(tok, storage) ==
    LET who  == get_current_user(tok, now, storage)
        tags == TokenTags(tok, now) \cup StorageTags(storage)
    IN  /\ Ready
        /\ resp' =
             IF who.kind \notin {"anon", "user"}
             THEN [Response("history", who.status, who.detail, "", 0, tags)
                     EXCEPT !.log = who.log]
             ELSE IF who.user = NoUser \/ who.user.role \notin {"user", "admin"}
             THEN Response("history", 403, "Forbidden", get_user_role(who.user),
                           who.user.id, tags)
             ELSE [Response("history", 200, "", who.user.role, who.user.id, tags)
                     EXCEPT !.history = MostRecent(PredictionsOf(who.user.id), HistoryLimit)]
        /\ UNCHANGED <<inflight, svc, codec, predictions, jwt_key, users, nextId, now, held, pc, req,
                       signedUp, models, tasks>>

----------------------------------------------------------------------------
(* services/model_service.py *)

\* time.time()
time_time == now * SecondsPerHour

\* a function of model_service.py is called when the last one has returned
Quiet == Started /\ ret = NoRet

\* the caller takes the result
Return ==
    /\ ret # NoRet
    /\ ret' = NoRet
    /\ UNCHANGED <<inflight, codec, predictions, jwt_key, users, nextId, now, held, pc, req,
                   resp, signedUp, models, tasks, service_models, model_cache, listing, deleted>>

\* what a request to the model service meets: the service answers it, the
\* service answers it with a 5xx status, or no connection is made
ServiceAnswers == {"answers", "http_error", "unreachable"}
ServiceFailures == ServiceAnswers \ {"answers"}

\* select(db.Model).where(db.Model.uuid == model_id) ... one_or_none()
ModelsByUuid(model_id) == {r \in models : r.uuid = model_id}

\* get_all_models: the rows of table "model" as ModelResponse objects
db_models == {ModelResponse(r.uuid, r.status) : r \in models}

\* _fetch_models_from_model_service(): the models of the service
model_service_models == {ModelResponse(m.id, "unknown") : m \in service_models}

\* mutant: the record of the model service kept when both have the id
merged_models_service_first(fetched, from_db) ==
    fetched \cup {d \in from_db : \A m \in fetched : m.id # d.id}

\* get_all_models: merged_models, a dict by id filled from the model service
\* first and from the database second
merged_models(fetched, from_db) ==
    from_db \cup {m \in fetched : \A d \in from_db : d.id # m.id}

\* `if _model_cache["data"] and (current_time - timestamp < CACHE_EXPIRY_SECONDS)`
cache_hit(current_time) ==
    /\ model_cache.data # {}
    /\ current_time - model_cache.timestamp < CACHE_EXPIRY_SECONDS

\* get_all_models up to its request to the model service: the cached
\* list is returned, or the rows of table "model" are read
GetAllModelsBegin(l) ==
    /\ Quiet
    /\ listing[l].pos = "idle"
    /\ IF cache_hit(time_time)
       THEN /\ ret' = [Ret("get_all_models", "returned", 200, "", {}, {"hit"})
                         EXCEPT !.result = model_cache.data, !.db = db_models,
                                !.gone = deleted]
            /\ UNCHANGED listing
       ELSE /\ listing' = [listing EXCEPT ![l] =
                             [pos |-> "fetch", current_time |-> time_time,
                              db_models |-> db_models, gone |-> deleted]]
            /\ UNCHANGED ret
    /\ UNCHANGED <<inflight, codec, predictions, jwt_key, users, nextId, now, held, pc, req,
                   resp, signedUp, models, tasks, service_models, model_cache, deleted>>

\* @retry(stop=stop_after_attempt(5), reraise=True): the requests made to the
\* model service when its first `failures` answers are failures
fetch_attempts(failures) ==
    IF failures < FetchAttempts THEN failures + 1 ELSE FetchAttempts

\* _fetch_models_from_model_service() with its retries, against a model
\* service whose first `failures` answers are failures of kind `failure` (a
\* 5xx status, or no connection): the list of the service, or the exception
\* of the last attempt, which get_all_models catches and logs; then the
\* merge, the write of the cache and the return
GetAllModelsFetch(l, failure, failures) ==
    /\ Quiet
    /\ listing[l].pos = "fetch"
    /\ LET fetched == IF failures < FetchAttempts THEN model_service_models ELSE {}
           sorted_models == merged_models(fetched, listing[l].db_models)
       IN  /\ model_cache' = [data |-> sorted_models,
                              timestamp |-> listing[l].current_time]
           /\ ret' = [Ret("get_all_models", "returned", 200, "", {"GET"},
                          {"miss"} \cup {x \in {"fetch_failed"} : failures >= FetchAttempts}
                                   \cup {x \in {failure} : failures >= FetchAttempts})
                        EXCEPT !.result = sorted_models,
                               !.db = listing[l].db_models,
                               !.gone = listing[l].gone,
                               !.attempts = fetch_attempts(failures)]
           /\ listing' = [listing EXCEPT ![l] = NoListing]
    /\ UNCHANGED <<inflight, codec, predictions, jwt_key, users, nextId, now, held, pc, req,
                   resp, signedUp, models, tasks, service_models, deleted>>

\* what start_model_training(async_session, model_data, background_tasks)
\* ends with
start_model_training_result(features) ==
    IF features = {}
    THEN Ret("start_model_training", "ValueError", 0,
             "At least one feature must be selected", {}, {"no_features"})
    ELSE Ret("start_model_training", "returned", 200, "training_started", {}, {"created"})

\* what start_model_training does: the row, the cache, the background task
start_model_training(features) ==
    IF features = {}
    THEN UNCHANGED <<models, tasks, model_cache>>
    ELSE LET k == Cardinality(tasks) + 1
         IN  /\ k <= MaxModels
             /\ models' = models \cup {ModelRow(k, Uuid4(k), "training_in_progress")}
             /\ model_cache' = NoCache
             /\ tasks' = tasks \cup {[k |-> k, pos |-> "scheduled", answer |-> ""]}

StartModelTraining(features) ==
    /\ Quiet
    /\ start_model_training(features)
    /\ ret' = start_model_training_result(features)
    /\ UNCHANGED <<inflight, codec, predictions, jwt_key, users, nextId, now, held, pc, req,
                   resp, signedUp, service_models, listing, deleted>>

\* delete_model, lines 209-243: the row is looked up; without a row the
\* model service is asked for the model.  "go": the function goes on to
\* delete.  The ValueError for a 404 is raised inside an except clause and
\* leaves the function; the ValueError for a model that is not removable is
\* raised inside the try block, where `except Exception` catches it and
\* raises HTTPException(500)
delete_model_check(model_id, get_answer) ==
    IF ModelsByUuid(model_id) # {} THEN "go"
    ELSE IF get_answer = "unreachable" THEN "unavailable"
    ELSE IF get_answer = "http_error" THEN "check_failed"
    ELSE IF \A m \in service_models : m.id # model_id THEN "not_found"
    ELSE IF ServiceModel(model_id, FALSE) \in service_models THEN "unexpected"
    ELSE "go"

\* the description of a delete call, recorded with its result
DeleteTags(model_id, get_answer) ==
    {x \in {"in_db"} : ModelsByUuid(model_id) # {}}
   \cup {x \in {"in_training"} :
           \E r \in ModelsByUuid(model_id) : r.status = "training_in_progress"}
   \cup {x \in {"no_such_model"} :
           /\ ModelsByUuid(model_id) = {}
           /\ get_answer = "answers"
           /\ \A m \in service_models : m.id # model_id}
   \cup {x \in {"not_removable"} :
           /\ ModelsByUuid(model_id) = {}
           /\ get_answer = "answers"
           /\ ServiceModel(model_id, FALSE) \in service_models}

\* what delete_model(async_session, model_id) ends with
delete_model_result(model_id, get_answer, delete_answer) ==
    LET check == delete_model_check(model_id, get_answer)
        asked == {x \in {"GET"} : ModelsByUuid(model_id) = {}}
        tags  == DeleteTags(model_id, get_answer)
    IN  IF check = "unavailable"
        THEN Ret("delete_model", "HTTPException", 503, "Model service unavailable",
                 asked, tags)
        ELSE IF check = "check_failed"
        THEN Ret("delete_model", "HTTPException", 500, "Failed to check model service",
                 asked, tags)
        ELSE IF check = "not_found"
        THEN Ret("delete_model", "ValueError", 0, "Model not found", asked, tags)
        ELSE IF check = "unexpected"
        THEN Ret("delete_model", "HTTPException", 500, "An unexpected error occurred",
                 asked, tags)
        ELSE Ret("delete_model", "returned", 200, "success", asked \cup {"DELETE"},
                 tags \cup {x \in {"service_delete_failed"} : delete_answer # "answers"})

\* what delete_model does, lines 245-286: the row is deleted, the model
\* service is asked to delete (it does so when it answers and the model is
\* removable; every failure is logged and dropped), the cache is invalidated
delete_model(model_id, get_answer, delete_answer) ==
    IF delete_model_check(model_id, get_answer) # "go"
    THEN UNCHANGED <<models, service_models, model_cache, deleted>>
    ELSE /\ models' = models \ ModelsByUuid(model_id)
         /\ deleted' = deleted \cup {model_id}
         /\ service_models' = IF delete_answer = "answers"
                              THEN service_models \ {ServiceModel(model_id, TRUE)}
                              ELSE service_models
         /\ model_cache' = NoCache

DeleteModel(model_id, get_answer, delete_answer) ==
    /\ Quiet
    /\ delete_model(model_id, get_answer, delete_answer)
    /\ ret' = delete_model_result(model_id, get_answer, delete_answer)
    /\ UNCHANGED <<inflight, codec, predictions, jwt_key, users, nextId, now, held, pc, req,
                   resp, signedUp, tasks, listing>>

\* what the health check and POST /models/train of a training task meet: a
\* result with id, accuracy and features; a 200 whose body has no "id"; a
\* 5xx status; no connection
TrainAnswers == {"ok", "no_id", "http_error", "unreachable"}

\* mutant: a task that ends on an exception without touching the row
training_status_unhandled(answer) ==
    IF answer = "ok" THEN "ready" ELSE "training_in_progress"

\* the status _train_model_task leaves: "ready" from
\* _process_training_results, "training_failed" from each except clause
\* (HTTPStatusError, RequestError, and Exception for the HTTPException of the
\* health check and the KeyError of training_result["id"])
training_status(answer) ==
    IF answer = "ok" THEN "ready" ELSE "training_failed"

\* _train_model_task up to the response of the model service; a successful
\* training leaves the trained model in the model service
TrainRequest(k, answer) ==
    /\ Started
    /\ \E t \in tasks :
         /\ t.k = k
         /\ t.pos = "scheduled"
         /\ tasks' = (tasks \ {t}) \cup {[t EXCEPT !.pos = "answered", !.answer = answer]}
    /\ service_models' = IF answer = "ok"
                         THEN service_models \cup {ServiceModel(ServiceId(k), TRUE)}
                         ELSE service_models
    /\ UNCHANGED <<inflight, codec, predictions, jwt_key, users, nextId, now, held, pc, req,
                   resp, signedUp, models, model_cache, listing, ret, deleted>>

\* _process_training_results(async_session, model_id, training_result): the
\* row takes the id of the model service and status "ready";
\* _update_model_status(async_session, model_id, status): the row takes the
\* status.  Both leave a missing row missing, and invalidate the cache when
\* they wrote.
TrainFinish(k) ==
    /\ Started
    /\ \E t \in tasks :
         /\ t.k = k
         /\ t.pos = "answered"
         /\ tasks' = (tasks \ {t}) \cup {[t EXCEPT !.pos = "ended"]}
         /\ IF ModelsByUuid(Uuid4(k)) = {}
            THEN UNCHANGED <<models, model_cache>>
            ELSE /\ models' = (models \ ModelsByUuid(Uuid4(k))) \cup
                       {ModelRow(r.id,
                                 IF training_status(t.answer) = "ready"
                                 THEN ServiceId(k) ELSE r.uuid,
                                 training_status(t.answer)) : r \in ModelsByUuid(Uuid4(k))}
                 /\ model_cache' = NoCache
    /\ UNCHANGED <<inflight, codec, predictions, jwt_key, users, nextId, now, held, pc, req,
                   resp, signedUp, service_models, listing, ret, deleted>>

----------------------------------------------------------------------------
(* POST /models/train and DELETE /models/{id}: routers/models.py *)

\* services/model_service.py: start_model_training(async_session, model_data,
\* background_tasks) and delete_model(async_session, model_id)
StartModelTrainingParams == 3
DeleteModelParams == 2
\* routers/models.py: start_model_training(model_data, background_tasks) and
\* delete_model(model_id)
TrainModelArgs == 2
RemoveModelArgs == 1

\* who the session resolver would take the sender of a request for: recorded
\* with the response, the handlers of routers/models.py do not ask
Sender(tok) ==
    LET who == get_current_user(tok, now, "up")
    IN  {x \in {"no_token"} : tok = NoToken}
   \cup {x \in {"non_admin"} : who.kind = "user" /\ who.user.role # "admin"}
   \cup {x \in {"admin"} : who.kind = "user" /\ who.user.role = "admin"}

\* the feature list of a training request, recorded with the response
FeatureTags(features) == {x \in {"no_features"} : features = {}}

\* the ids a DELETE /models/{id} is sent for
RequestedIds == {FakeId, DefaultModel} \cup {r.uuid : r \in models}

\* train_model: `except ValueError` answers 400, `except Exception` 500
train_model_status(r) ==
    IF r.kind = "returned" THEN 200 ELSE IF r.kind = "ValueError" THEN 400 ELSE 500

\* remove_model: `except ValueError` answers 404, `except Exception` 500
remove_model_status(r) ==
    IF r.kind = "returned" THEN 200 ELSE IF r.kind = "ValueError" THEN 404 ELSE 500

\* train_model(model_data, background_tasks): no dependency on the sender; a
\* call with the wrong number of arguments raises TypeError, which the
\* handler answers with 500
TrainModel(tok, features) ==
    /\ Ready
    /\ IF TrainModelArgs # StartModelTrainingParams
       THEN /\ resp' = Response("train", 500, "Failed to start model training", "", 0,
                                Sender(tok) \cup FeatureTags(features))
            /\ UNCHANGED <<models, tasks, model_cache>>
       ELSE /\ start_model_training(features)
            /\ resp' = Response("train",
                                train_model_status(start_model_training_result(features)),
                                start_model_training_result(features).detail, "", 0,
                                Sender(tok) \cup FeatureTags(features)
                                    \cup {x \in {"changed"} : features # {}})
    /\ UNCHANGED <<inflight, codec, predictions, jwt_key, users, nextId, now, held, pc, req,
                   signedUp, service_models, listing, ret, deleted>>

\* remove_model(model_id)
RemoveModel(tok, model_id) ==
    /\ Ready
    /\ IF RemoveModelArgs # DeleteModelParams
       THEN /\ resp' = Response("delete", 500, "Failed to delete model", "", 0,
                                Sender(tok) \cup DeleteTags(model_id, "answers"))
            /\ UNCHANGED <<models, service_models, model_cache, deleted>>
       ELSE \E get_answer \in ServiceAnswers, delete_answer \in ServiceAnswers :
            /\ delete_model(model_id, get_answer, delete_answer)
            /\ resp' = Response("delete",
                         remove_model_status(
                             delete_model_result(model_id, get_answer, delete_answer)),
                         delete_model_result(model_id, get_answer, delete_answer).detail,
                         "", 0,
                         Sender(tok) \cup DeleteTags(model_id, get_answer)
                             \cup {x \in {"changed"} :
                                     delete_model_check(model_id, get_answer) = "go"})
    /\ UNCHANGED <<inflight, codec, predictions, jwt_key, users, nextId, now, held, pc, req,
                   signedUp, tasks, listing, ret>>

----------------------------------------------------------------------------
(* An administrative change of a user's role in the store (not an operation
   of the service: User.role is "mutable only by privileged administrative
   action") *)
UpdateRole(id, role) ==
    /\ Ready
    /\ \E u \in users :
         /\ u.id = id
         /\ u.role # role
         /\ users' = (users \ {u}) \cup {[u EXCEPT !.role = role]}
    /\ UNCHANGED <<inflight, svc, codec, predictions, jwt_key, nextId, now, held, pc, req, resp, signedUp, models, tasks>>

----------------------------------------------------------------------------
(* POST /predict/ seen dependency by dependency: FastAPI solves the
   parameters of predict_passenger_survival in order, `role: AnyRole`
   (get_user_role over get_current_user) before `current_user`, and then
   calls the handler *)

\* mutant: Depends(get_current_user, use_cache=False): each parameter that
\* depends on the resolver calls it
solve_dependency_uncached(cached, calls, tok, t, storage) ==
    [value |-> get_current_user(tok, t, storage), calls |-> calls + 1]

\* Depends(get_current_user) keeps use_cache=True: within a request the
\* value of the first call serves every parameter that depends on the
\* resolver
solve_dependency(cached, calls, tok, t, storage) ==
    [value |-> cached, calls |-> calls]

\* `role: AnyRole`: get_current_user is called, get_user_role takes its value
SolveRole(tok, storage) ==
    LET who == get_current_user(tok, now, storage)
    IN  /\ Ready
        /\ inflight.pos = "idle"
        /\ IF who.kind \in {"anon", "user"}
           THEN /\ inflight' = [pos |-> "role", token |-> tok, cached |-> who,
                                role |-> get_user_role(who.user),
                                current_user |-> NoUser, calls |-> 1]
                /\ UNCHANGED resp
           ELSE /\ resp' = [Response("predict", who.status, who.detail, "", 0,
                                     TokenTags(tok, now) \cup StorageTags(storage))
                              EXCEPT !.log = who.log]
                /\ UNCHANGED inflight
        /\ UNCHANGED <<svc, codec, predictions, jwt_key, users, nextId, now, held, pc, req,
                       signedUp, models, tasks>>

\* `current_user: Annotated[User | None, Depends(get_current_user)]`
SolveCurrentUser(storage) ==
    LET solved == solve_dependency(inflight.cached, inflight.calls, inflight.token,
                                   now, storage)
    IN  /\ Ready
        /\ inflight.pos = "role"
        /\ IF solved.value.kind \in {"anon", "user"}
           THEN /\ inflight' = [inflight EXCEPT !.pos = "solved",
                                                !.current_user = solved.value.user,
                                                !.calls = solved.calls]
                /\ UNCHANGED resp
           ELSE /\ resp' = [Response("predict", solved.value.status, solved.value.detail,
                                     "", 0, StorageTags(storage))
                              EXCEPT !.log = solved.value.log]
                /\ inflight' = NoInflight
        /\ UNCHANGED <<svc, codec, predictions, jwt_key, users, nextId, now, held, pc, req,
                       signedUp, models, tasks>>

\* the handler is entered with the role and the user that were solved
EnterHandler ==
    /\ Ready
    /\ inflight.pos = "solved"
    /\ resp' = [Response("predict", 200, "", inflight.role, inflight.current_user.id,
                         {"entered"}) EXCEPT !.email = inflight.current_user.email]
    /\ inflight' = NoInflight
    /\ UNCHANGED <<svc, codec, predictions, jwt_key, users, nextId, now, held, pc, req,
                   signedUp, models, tasks>>

----------------------------------------------------------------------------
(* jwt.encode called by a holder of a key with a payload of its choice, as
   tests/conftest.py does: the claims sub, exp and role of a user, with exp
   or sub left out, or with a sub that is not a number *)
PayloadShapes == {"no_exp", "no_sub", "sub_not_int"}

ShapedPayload(user, shape, t) ==
    [sub |-> IF shape = "no_exp" THEN Str(user.id) ELSE NotANumber,
     role |-> user.role, iat |-> 0,
     exp |-> IF shape = "no_exp" THEN 0 ELSE t + DefaultMaxAge,
     claims |-> IF shape = "no_exp" THEN {"sub", "role"}
                ELSE IF shape = "no_sub" THEN {"exp", "role"}
                ELSE {"sub", "exp", "role"}]

EncodePayload(user, shape, key) ==
    /\ Ready
    /\ held' = jwt_encode(ShapedPayload(user, shape, now), key)
    /\ UNCHANGED <<inflight, svc, codec, predictions, jwt_key, users, nextId, now, pc, req,
                   resp, signedUp, models, tasks>>

----------------------------------------------------------------------------
(* The token codec on its own: mk_jwt_token, then jwt.decode with the same
   key at the time of the clock *)
RoundTrip(user, max_age, issued_at, key) ==
    LET token == mk_jwt_token(user, max_age, issued_at, key)
    IN  /\ issued_at.whole <= now
        /\ codec' = [user |-> user, max_age |-> max_age, issued_at |-> issued_at,
                     key |-> key, ok |-> jwt_decode_ok(token, key, now),
                     decoded |-> jwt_decode(token, key, now)]
        /\ UNCHANGED <<inflight, svc, jwt_key, users, nextId, now, held, pc, req, resp, signedUp,
                       models, tasks, predictions>>

----------------------------------------------------------------------------
(* Specifications *)

AllowedRoleSets == {AdminRoles, {"user", "admin"}, {"anon", "user", "admin"}}
FeatureSets == {{}, {"pclass", "sex"}}

Next ==
    \/ SendResponse
    \/ Tick
    \/ \E p \in Procs, email \in Emails, password \in SignupPasswords,
          body_role \in BodyRoles :
         SignupBegin(p, email, password, body_role)
    \/ \E p \in Procs, salt \in Salts : SignupCommit(p, salt)
    \/ \E email \in Emails, password \in Passwords : Login(email, password)
    \/ \E user \in users \cup {DetachedUser}, key \in Keys : IssueToken(user, key)
    \/ \E tok \in Presentable, storage \in Storage : ResolveRole(tok, storage)
    \/ \E tok \in Held, allowed \in AllowedRoleSets, storage \in Storage :
         CheckRole(tok, allowed, storage)
    \/ \E tok \in Held, storage \in Storage : Whoami(tok, storage)
    \/ \E tok \in Held, storage \in Storage, model_ids \in ModelIdsInputs,
          inference \in Inference :
         Predict(tok, storage, model_ids, inference)
    \/ \E tok \in Held, storage \in Storage : History(tok, storage)
    \/ \E tok \in Held, features \in FeatureSets : TrainModel(tok, features)
    \/ \E tok \in Held, model_id \in RequestedIds : RemoveModel(tok, model_id)

Spec == Init /\ [][Next]_vars

\* token issue and resolution together with administrative role changes
NextRoleChange ==
    \/ SendResponse
    \/ Tick
    \/ \E user \in users \cup {DetachedUser}, key \in Keys : IssueToken(user, key)
    \/ \E tok \in Presentable, storage \in Storage : ResolveRole(tok, storage)
    \/ \E tok \in Held, storage \in Storage : Whoami(tok, storage)
    \/ \E id \in 1..MaxId, role \in Roles : UpdateRole(id, role)

SpecRoleChange == Init /\ [][NextRoleChange]_vars

\* the token codec applied to inputs drawn from bounded sets
TimeDeltas == {DateTime(whole, frac) : whole \in 0..MaxTime, frac \in Fractions}
DateTimes == {DateTime(whole, frac) : whole \in 0..MaxTime, frac \in Fractions}

NextCodec ==
    \/ Tick
    \/ \E user \in users \cup {DetachedUser}, max_age \in TimeDeltas,
          issued_at \in DateTimes, key \in Keys :
         RoundTrip(user, max_age, issued_at, key)

SpecCodec == Init /\ [][NextCodec]_vars

\* the functions of services/model_service.py called with a session factory,
\* and their background tasks; JWT_SECRET_KEY is the key of tests/conftest.py
InitModels == Init /\ jwt_key = "ultrasecuresecretkey"

\* the ids delete_model is called with
ModelIdInputs ==
    {FakeId, DefaultModel} \cup {Uuid4(k) : k \in ModelIds} \cup {ServiceId(k) : k \in ModelIds}

NextModels ==
    \/ Return
    \/ Tick
    \/ \E l \in Listers : GetAllModelsBegin(l)
    \/ \E l \in Listers, failure \in ServiceFailures, failures \in 0..FetchAttempts + 1 :
         GetAllModelsFetch(l, failure, failures)
    \/ \E features \in FeatureSets : StartModelTraining(features)
    \/ \E model_id \in ModelIdInputs, get_answer \in ServiceAnswers,
          delete_answer \in ServiceAnswers :
         DeleteModel(model_id, get_answer, delete_answer)
    \/ \E k \in ModelIds, answer \in TrainAnswers : TrainRequest(k, answer)
    \/ \E k \in ModelIds : TrainFinish(k)

SpecModels == InitModels /\ [][NextModels]_vars

\* get_all_models next to trainings: the rows and the models of the model
\* service a listing can meet
NextListing ==
    \/ Return
    \/ \E l \in Listers : GetAllModelsBegin(l)
    \/ \E l \in Listers, failure \in ServiceFailures, failures \in 0..FetchAttempts + 1 :
         GetAllModelsFetch(l, failure, failures)
    \/ \E features \in FeatureSets : StartModelTraining(features)
    \/ \E k \in ModelIds, answer \in TrainAnswers : TrainRequest(k, answer)
    \/ \E k \in ModelIds : TrainFinish(k)

SpecListing == InitModels /\ [][NextListing]_vars

\* trainings, their background tasks and deletions
NextTraining ==
    \/ Return
    \/ \E features \in FeatureSets : StartModelTraining(features)
    \/ \E model_id \in ModelIdInputs, get_answer \in ServiceAnswers,
          delete_answer \in ServiceAnswers :
         DeleteModel(model_id, get_answer, delete_answer)
    \/ \E k \in ModelIds, answer \in TrainAnswers : TrainRequest(k, answer)
    \/ \E k \in ModelIds : TrainFinish(k)

\* a background task is run to its end once it is scheduled (Starlette runs
\* the tasks of a response after sending it; the requests of the task have
\* timeouts), and a result is taken by its caller
SpecTraining ==
    /\ InitModels
    /\ [][NextTraining]_vars
    /\ WF_vars(Return)
    /\ \A k \in ModelIds :
         /\ WF_vars(\E answer \in TrainAnswers : TrainRequest(k, answer))
         /\ WF_vars(TrainFinish(k))

\* a request to POST /predict/ handled while roles are changed in the store
NextMemo ==
    \/ SendResponse
    \/ \E user \in users \cup {DetachedUser}, key \in Keys : IssueToken(user, key)
    \/ \E tok \in Held, storage \in Storage : SolveRole(tok, storage)
    \/ \E storage \in Storage : SolveCurrentUser(storage)
    \/ EnterHandler
    \/ \E id \in 1..MaxId, role \in Roles : UpdateRole(id, role)

SpecMemo == Init /\ [][NextMemo]_vars

\* tokens with an incomplete payload presented to the resolver
NextPayload ==
    \/ SendResponse
    \/ Tick
    \/ \E user \in users, shape \in PayloadShapes, key \in Keys :
         EncodePayload(user, shape, key)
    \/ \E tok \in Held, storage \in Storage : ResolveRole(tok, storage)

SpecPayload == Init /\ [][NextPayload]_vars

----------------------------------------------------------------------------
(* Claims *)

SeededEmails == {"admin@test", "user@test"}
RejectTags == {"malformed", "other_key", "tampered", "expired", "no_subject"}

\* C1: the users table holds at most one user per email in every reachable
\* state, and no two signups answered 200 are for the same email, whatever
\* the interleaving of their select and their insert/commit.
C1_OneUserPerEmail ==
    /\ \A email \in Emails : Cardinality(UsersByEmail(email)) <= 1
    /\ \A a \in signedUp, b \in signedUp : a.email = b.email => a = b
    /\ \A c \in signedUp : c.email \notin SeededEmails

\* C1 witness: two signups for one email both passed the select; one has
\* committed and been answered 200, the other has just lost at its commit.
C1_Witness ==
    /\ resp.op = "signup"
    /\ "integrity_error" \in resp.tags
    /\ signedUp # {}

\* C2 (as claimed): a token that is valid except that its role claim differs
\* from the live role of its user resolves to Anonymous.
C2_StaleRoleIsAnonymous ==
    (/\ resp.op = "role"
     /\ "stale_role" \in resp.tags
     /\ resp.tags \cap RejectTags = {})
    => (resp.status = 200 /\ resp.role = "anon" /\ resp.uid = 0)

\* C3 (as claimed): a login with the pair of a successful signup succeeds,
\* and the token of that login, presented before it expires, resolves to
\* the signed-up user with role "user".
C3_SignupLoginResolves ==
    /\ \A c \in signedUp : LoginResponse(c.email, c.password, now).status = 200
    /\ (/\ resp.op = "role"
        /\ {"from_login", "signup_user"} \subseteq resp.tags
        /\ "expired" \notin resp.tags)
       => (/\ resp.status = 200
           /\ resp.role = "user"
           /\ \E c \in signedUp : c.id = resp.uid)

\* C4: a token signed with another key than jwt_key, or whose payload differs
\* from the payload that was signed, never resolves to a user: the resolver
\* returns no identity for it, on every route.
C4_ForgedNeverAuthenticated ==
    /\ \A tok \in Presentable :
         TokenTags(tok, now) \cap {"other_key", "tampered"} # {}
         => \A storage \in Storage : get_current_user(tok, now, storage).kind # "user"
    /\ (resp.op \in {"role", "gate"} /\ resp.tags \cap {"other_key", "tampered"} # {})
       => (resp.uid = 0 /\ resp.role \notin Roles /\ resp.status # 200)

\* C4 witness: a token signed with jwt_key whose payload was altered
\* afterwards has been presented and refused.
C4_Witness ==
    /\ resp.op = "role"
    /\ "tampered" \in resp.tags
    /\ "other_key" \notin resp.tags
    /\ resp.status = 401

\* C5 (as claimed): a token with now >= exp whose signature verifies and
\* whose subject is in the store resolves to Anonymous.
C5_ExpiredIsAnonymous ==
    (/\ resp.op = "role"
     /\ "expired" \in resp.tags
     /\ resp.tags \cap {"malformed", "other_key", "tampered", "no_subject"} = {})
    => (resp.status = 200 /\ resp.role = "anon" /\ resp.uid = 0)

\* C6 (as claimed): a request whose token does not decode, is expired or
\* names a subject that is not in the store is answered as a request without
\* a token: no error, effective role "anon".
C6_RejectedTokenIsAnonymous ==
    (resp.op = "role" /\ resp.tags \cap RejectTags # {})
    => (resp.status = 200 /\ resp.role = "anon" /\ resp.uid = 0 /\ resp.detail = "")

\* the effective role of the sender of the response: the live role of the
\* resolved user, "anon" when there is none
EffectiveRole == IF resp.uid = 0 THEN "anon" ELSE FindById(resp.uid).role
AllowedOfResp == {r \in DOMAIN AllowTag : AllowTag[r] \in resp.tags}

\* C7: for a request the resolver let through, has_role(allowed_roles) returns
\* the effective role exactly when it is in allowed_roles; otherwise it
\* answers 401 when there is no identity and 403 when there is one.  For
\* allowed_roles = {"admin"}: anonymous 401, non-admin 403, admin succeeds.
C7_RoleGate ==
    (resp.op = "gate" /\ "resolver_error" \notin resp.tags)
    => /\ (EffectiveRole \in AllowedOfResp
             => resp.status = 200 /\ resp.role = EffectiveRole)
       /\ (EffectiveRole \notin AllowedOfResp /\ resp.uid = 0 => resp.status = 401)
       /\ (EffectiveRole \notin AllowedOfResp /\ resp.uid # 0 => resp.status = 403)
       /\ (AllowedOfResp = AdminRoles
             => resp.status = (IF resp.uid = 0 THEN 401
                               ELSE IF FindById(resp.uid).role = "admin" THEN 200
                               ELSE 403))

\* C7 witness: an authenticated non-admin has been refused by the admin gate.
C7_Witness ==
    /\ resp.op = "gate"
    /\ AllowedOfResp = AdminRoles
    /\ resp.uid # 0
    /\ FindById(resp.uid).role = "user"
    /\ resp.status = 403

\* C8 (as claimed): POST /models/train and DELETE /models/{id} answer a request
\* without token with 401 and one of an authenticated non-admin with 403, and
\* change no model record and start no task for them.
C8_ModelRoutesAdminOnly ==
    resp.op \in {"train", "delete"}
    => /\ ("no_token" \in resp.tags => resp.status = 401 /\ "changed" \notin resp.tags)
       /\ ("non_admin" \in resp.tags => resp.status = 403 /\ "changed" \notin resp.tags)

\* C9: a login with an email no user has and a login with the email of a user
\* and a wrong password get the same response: status 401, the same detail,
\* no token.
C9_LoginFailuresIdentical ==
    /\ \A e1 \in Emails, e2 \in Emails, p1 \in Passwords, p2 \in Passwords :
         (/\ UsersByEmail(e1) = {}
          /\ \E u \in users : u.email = e2 /\ ~Verify(u.hashed_password, p2))
         => LoginResponse(e1, p1, now) = LoginResponse(e2, p2, now)
    /\ (resp.op = "login" /\ resp.tags \cap {"no_user", "bad_password"} # {})
       => [status |-> resp.status, detail |-> resp.detail, token |-> "issued" \in resp.tags]
            = [status |-> 401, detail |-> "Invalid credentials.", token |-> FALSE]

\* C9 witness: a login with a wrong password has been refused while some
\* email has no user.
C9_Witness ==
    /\ resp.op = "login"
    /\ "bad_password" \in resp.tags
    /\ \E e \in Emails : UsersByEmail(e) = {}

\* C10: login answers 200 with a token exactly when a user with the email is
\* in the store and the password verifies against its hash; every other login
\* answers 401 without a token.
C10_LoginIff ==
    /\ \A e \in Emails, p \in Passwords :
         LET r  == LoginResponse(e, p, now)
             ok == \E u \in users : u.email = e /\ Verify(u.hashed_password, p)
         IN  /\ r.status = 200 <=> ok
             /\ ok => r.access_token # NoToken
             /\ ~ok => r.status = 401 /\ r.access_token = NoToken
    /\ resp.op = "login"
       => \/ /\ resp.status = 200
             /\ "issued" \in resp.tags
             /\ resp.tags \cap {"no_user", "bad_password"} = {}
             /\ held # NoToken /\ held.payload.sub = Str(resp.uid)
          \/ /\ resp.status = 401
             /\ "issued" \notin resp.tags
             /\ resp.tags \cap {"no_user", "bad_password"} # {}

\* C10 witness: a login of a signed-up user has succeeded.
C10_Witness ==
    /\ resp.op = "login"
    /\ resp.status = 200
    /\ \E c \in signedUp : c.id = resp.uid

\* C11: every step that adds a user adds it through signup with role "user",
\* whatever role the body of the request asked for, and no step of signup,
\* login or a token-resolving request removes a user or changes its role.
C11_SignupRoleIsUser ==
    [][/\ \A u \in users' \ users : u.role = "user" /\ resp'.op = "signup"
       /\ users \subseteq users']_vars

\* C11 witness: a signup has been answered 200 and its user is stored with
\* role "user", next to the seeded admin.
C11_Witness ==
    /\ resp.op = "signup"
    /\ resp.status = 200
    /\ \E c \in signedUp : c.id = resp.uid
    /\ FindById(resp.uid).role = "user"
    /\ FindById(1).role = "admin"

\* C12 (as claimed): the token a successful login handed out, presented as
\* the access_token cookie before it expires, resolves to the logged-in user:
\* whoami answers 200 with that user's stored email and role.
C12_LoginThenWhoami ==
    (/\ resp.op = "whoami"
     /\ "from_login" \in resp.tags
     /\ "expired" \notin resp.tags)
    => LET user == FindById(Int_(held.payload.sub))
       IN  /\ resp.status = 200
           /\ resp.uid = user.id
           /\ resp.email = user.email
           /\ resp.role = user.role

C14_LoginTokenClaims ==
    (resp.op = "login" /\ resp.status = 200)
    => LET user == FindById(resp.uid)
       IN  /\ held.payload.claims = {"sub", "role", "iat", "exp"}
           /\ held.payload.sub = Str(user.id)
           /\ held.payload.role = user.role
           /\ held.payload.iat = now
           /\ held.payload.exp = now + DefaultMaxAge

\* C15 (as claimed): without a configured key the service does not start and
\* serves nothing; the token of a login is signed with the configured key,
\* and a token that authenticates a request is signed with it.
C15_OnlyConfiguredKey ==
    /\ ~Started => (resp = NoResp /\ held = NoToken /\ users = {})
    /\ (resp.op = "login" /\ resp.status = 200) => held.sig.k = jwt_key
    /\ (resp.op \in {"role", "gate", "whoami"} /\ resp.uid # 0) => held.sig.k = jwt_key

C17_StorageFailureDistinct ==
    /\ (/\ resp.op \in {"role", "gate", "whoami"}
        /\ "storage_down" \in resp.tags
        /\ resp.tags \cap {"no_token", "malformed", "other_key", "tampered", "expired"} = {})
       => /\ resp.status = 500
          /\ resp.detail = "An unexpected error occurred."
          /\ resp.role = "" /\ resp.uid = 0 /\ resp.email = ""
    /\ ("storage_down" \in resp.tags) => (resp.uid = 0 /\ resp.role \notin Roles)

\* C17 witness: the token of an existing user, valid in every respect, has
\* been presented while the storage was down, and the request failed.
C17_Witness ==
    /\ resp.op = "whoami"
    /\ "storage_down" \in resp.tags
    /\ resp.tags \cap (RejectTags \cup {"no_token"}) = {}
    /\ resp.status = 500

\* a logged object is a raw token when it has the three parts of a JWT
IsRawToken(x) == {"payload", "alg", "sig"} \subseteq DOMAIN x

\* C18 (as claimed): no log entry the resolver writes when it rejects a token
\* (decode failure, expiry, missing user) holds the raw token, a password or
\* the signing key.
C18_NoSecretLogged ==
    resp.op \in {"role", "gate", "whoami"}
    => \A e \in resp.log :
         /\ ~IsRawToken(e.tkn)
         /\ e.message \notin Passwords \cup Keys

\* C19 (as claimed): a prediction made by a request authenticated as U (valid
\* data, the model service answering) is answered 200 and stored as a
\* prediction of U; the history returned to U is exactly the predictions of
\* U, the 10 most recent when there are more, and holds no prediction of
\* another user or of an anonymous request.
C19_HistoryIsOwnPredictions ==
    /\ (resp.op = "predict" /\ {"valid", "by_user"} \subseteq resp.tags)
       => /\ resp.status = 200
          /\ \E p \in predictions : p.user_id = resp.uid /\ p.created_at = now
    /\ (resp.op = "history" /\ resp.status = 200)
       => /\ resp.uid # 0
          /\ resp.history = MostRecent(PredictionsOf(resp.uid), HistoryLimit)
          /\ \A p \in resp.history : p.user_id = resp.uid

\* C20 (as claimed): GET /predict/history without token is answered 401 and
\* returns no prediction.
C20_HistoryAnonymous401 ==
    (resp.op = "history" /\ "no_token" \in resp.tags)
    => (resp.status = 401 /\ resp.history = {})

\* C21 (as claimed): a signup that fails because its email is already stored,
\* or because it lost the race against a concurrent signup for the same
\* email, is answered 409 "Duplicate email." and with no other error.
C21_DuplicateIs409 ==
    (resp.op = "signup" /\ resp.status # 200)
    => (resp.status = 409 /\ resp.detail = "Duplicate email.")

\* C22 (as claimed): a training request from an admin with an empty feature
\* list is answered 400 and changes nothing: no model record, no task.
C22_TrainWithoutFeatures400 ==
    (resp.op = "train" /\ {"admin", "no_features"} \subseteq resp.tags)
    => (resp.status = 400 /\ "changed" \notin resp.tags)

\* C23 (as claimed): deleting, as admin, a model id that is not in the
\* database and that the model service answers with 404 is answered 404 and
\* changes nothing.
C23_DeleteUnknown404 ==
    (resp.op = "delete" /\ {"admin", "no_such_model"} \subseteq resp.tags)
    => (resp.status = 404 /\ "changed" \notin resp.tags)

\* C24: within one request the session resolver runs at most once, and the
\* role dependency and the handler see the same resolved identity (the role
\* is the role of the user the handler gets, "anon" when it gets none), also
\* when the user's row is changed in the store while the request is handled.
C24_ResolvedOnce ==
    /\ inflight.calls <= 1
    /\ inflight.pos = "solved"
       => /\ inflight.current_user = inflight.cached.user
          /\ inflight.role = get_user_role(inflight.current_user)

\* C24 witness: the dependencies of a request are solved for a user whose
\* role in the store has changed since the resolver ran.
C24_Witness ==
    /\ inflight.pos = "solved"
    /\ inflight.current_user # NoUser
    /\ FindById(inflight.current_user.id).role # inflight.role

InTraining(k) == \E r \in models : r.id = k /\ r.status = "training_in_progress"

C27_DeletedNotListed ==
    ret.op = "get_all_models" => \A r \in ret.result : r.id \notin ret.gone

\* C28 (as claimed): delete_model for a model that is not in the database and
\* that the model service reports as not removable ends with the ValueError
\* the router maps to a 4xx response, not with a 500, and sends no DELETE
\* request to the model service.
C28_NotRemovableIsClientError ==
    (ret.op = "delete_model" /\ "not_removable" \in ret.tags)
    => /\ ret.kind = "ValueError"
       /\ remove_model_status(ret) \in 400..499
       /\ "DELETE" \notin ret.requests

C30_IncompleteClaimsInvalid ==
    (/\ resp.op = "role"
     /\ resp.tags \cap {"lacks_exp", "lacks_sub", "sub_not_int"} # {}
     /\ resp.tags \cap {"other_key", "tampered", "expired", "storage_down"} = {})
    => (resp.status = 401 /\ resp.detail = "Invalid token" /\ resp.uid = 0)

====
